---- MODULE Spec2Model ----
(***************************************************************************)
(* Model of water_export_cli.py: the time-label parser, the alert          *)
(* classifier, the fetch-window planner, the record normalizer and the     *)
(* incremental CSV merge of main().                                        *)
(*                                                                         *)
(* Conventions                                                             *)
(*   - Python None / pandas NaN is the empty tuple None; a present value x *)
(*     is the 1-tuple Some(x).                                             *)
(*   - metres are integers in units of 0.001 m.                            *)
(*   - a date is <<y, m, d>>, a timestamp "%Y-%m-%d %H:%M" is              *)
(*     <<y, m, d, H, M>> (fixed width, zero padded: the string order is    *)
(*     the tuple order).                                                   *)
(*   - a text is a sequence of one-character strings.                      *)
(***************************************************************************)
EXTENDS Integers, Sequences, FiniteSets, TLC

None == <<>>
Some(x) == <<x>>
Val(o) == o[1]

(***************************************************************************)
(* Calendar arithmetic of datetime.date (proleptic Gregorian).             *)
(***************************************************************************)
IsLeap(y) == (y % 4 = 0) /\ ((y % 100 # 0) \/ (y % 400 = 0))

DaysInMonth(y, m) ==
    IF m = 2 THEN (IF IsLeap(y) THEN 29 ELSE 28)
    ELSE IF m \in {4, 6, 9, 11} THEN 30 ELSE 31

\* days since 1970-01-01 of the civil date <<y, m, d>>
DaysFromCivil(dt) ==
    LET y0  == IF dt[2] <= 2 THEN dt[1] - 1 ELSE dt[1]
        era == y0 \div 400
        yoe == y0 - era * 400
        mp  == IF dt[2] > 2 THEN dt[2] - 3 ELSE dt[2] + 9
        doy == (153 * mp + 2) \div 5 + dt[3] - 1
        doe == yoe * 365 + yoe \div 4 - yoe \div 100 + doy
    IN  era * 146097 + doe - 719468

\* the civil date <<y, m, d>> that is z days after 1970-01-01
CivilFromDays(z) ==
    LET z0  == z + 719468
        era == z0 \div 146097
        doe == z0 - era * 146097
        yoe == (doe - doe \div 1460 + doe \div 36524 - doe \div 146096) \div 365
        doy == doe - (365 * yoe + yoe \div 4 - yoe \div 100)
        mp  == (5 * doy + 2) \div 153
        d   == doy - (153 * mp + 2) \div 5 + 1
        m   == IF mp < 10 THEN mp + 3 ELSE mp - 9
        y   == yoe + era * 400
    IN  << (IF m <= 2 THEN y + 1 ELSE y), m, d >>

\* date - timedelta(days=n)
MinusDays(dt, n) == CivilFromDays(DaysFromCivil(dt) - n)

\* date < date
DateLess(a, b) == DaysFromCivil(a) < DaysFromCivil(b)

\* datetime.date() of a timestamp
DateOf(ts) == << ts[1], ts[2], ts[3] >>

\* datetime(year, month, day, hour, minute): None stands for ValueError
MakeDatetime(y, m, d, h, mi) ==
    IF /\ m \in 1..12
       /\ d >= 1 /\ d <= DaysInMonth(y, m)
       /\ h \in 0..23
       /\ mi \in 0..59
    THEN << y, m, d, h, mi >>
    ELSE None

(***************************************************************************)
(* Texts and the two regular expressions of parse_river_dt.                *)
(***************************************************************************)
Digits == << "0", "1", "2", "3", "4", "5", "6", "7", "8", "9" >>

IsDigit(c) == \E i \in 1..10 : Digits[i] = c

DigitVal(c) == (CHOOSE i \in 1..10 : Digits[i] = c) - 1

IsSpace(c) == c \in {" ", "\n", "\t"}

RECURSIVE IntOf(_)
\* int(text) of a text of digits
IntOf(s) ==
    IF s = <<>> THEN 0
    ELSE 10 * IntOf(SubSeq(s, 1, Len(s) - 1)) + DigitVal(s[Len(s)])

\* str(n) for 0 <= n <= 99
StrOf(n) ==
    IF n < 10 THEN << Digits[n + 1] >>
    ELSE << Digits[(n \div 10) + 1], Digits[(n % 10) + 1] >>

RECURSIVE Strip(_)
\* str.strip()
Strip(s) ==
    IF s = <<>> THEN s
    ELSE IF IsSpace(s[1]) THEN Strip(Tail(s))
    ELSE IF IsSpace(s[Len(s)]) THEN Strip(SubSeq(s, 1, Len(s) - 1))
    ELSE s

At(s, i) == IF i >= 1 /\ i <= Len(s) THEN s[i] ELSE ""

\* length of the greedy \d{1,2} at position i that is followed by character c
\* (0: no match)
Digits12Then(s, i, c) ==
    IF IsDigit(At(s, i)) /\ IsDigit(At(s, i + 1)) /\ At(s, i + 2) = c THEN 2
    ELSE IF IsDigit(At(s, i)) /\ At(s, i + 1) = c THEN 1
    ELSE 0

\* length of the greedy \d{1,2} at position i, last group of a pattern
Digits12(s, i) ==
    IF IsDigit(At(s, i)) /\ IsDigit(At(s, i + 1)) THEN 2
    ELSE IF IsDigit(At(s, i)) THEN 1
    ELSE 0

RECURSIVE SpaceRun(_, _)
\* length of the run of whitespace starting at position i
SpaceRun(s, i) == IF IsSpace(At(s, i)) THEN 1 + SpaceRun(s, i + 1) ELSE 0

\* (\d{1,2})h\s+(\d{1,2})/(\d{1,2}) anchored at i: the three groups, or None
MatchNewAt(s, i) ==
    LET n1 == Digits12Then(s, i, "h")
        j  == i + n1 + 1
        w  == SpaceRun(s, j)
        k  == j + w
        n2 == Digits12Then(s, k, "/")
        l  == k + n2 + 1
        n3 == Digits12(s, l)
    IN  IF n1 > 0 /\ w > 0 /\ n2 > 0 /\ n3 > 0
        THEN << SubSeq(s, i, i + n1 - 1), SubSeq(s, k, k + n2 - 1),
                SubSeq(s, l, l + n3 - 1) >>
        ELSE None

\* (\d{1,2})h(\d{1,2})/(\d{1,2}) anchored at i: the three groups, or None
MatchOldAt(s, i) ==
    LET n1 == Digits12Then(s, i, "h")
        k  == i + n1 + 1
        n2 == Digits12Then(s, k, "/")
        l  == k + n2 + 1
        n3 == Digits12(s, l)
    IN  IF n1 > 0 /\ n2 > 0 /\ n3 > 0
        THEN << SubSeq(s, i, i + n1 - 1), SubSeq(s, k, k + n2 - 1),
                SubSeq(s, l, l + n3 - 1) >>
        ELSE None

\* re.search: the leftmost match
SearchNew(s) ==
    LET hits == { i \in 1..Len(s) : MatchNewAt(s, i) # None }
    IN  IF hits = {} THEN None
        ELSE MatchNewAt(s, CHOOSE i \in hits : \A j \in hits : i <= j)

SearchOld(s) ==
    LET hits == { i \in 1..Len(s) : MatchOldAt(s, i) # None }
    IN  IF hits = {} THEN None
        ELSE MatchOldAt(s, CHOOSE i \in hits : \A j \in hits : i <= j)

\* Case B of parse_river_dt
ParseOldFormat(clean, current_year, now_month) ==
    LET m_old == SearchOld(clean)
    IN  IF m_old = None THEN None
        ELSE MakeDatetime(current_year, now_month, IntOf(m_old[3]),
                          IntOf(m_old[1]), IntOf(m_old[2]))

\* Case A without the year boundary handling of lines 170-171
YearToUse_noRollover(month, current_year, now_month) == current_year

\* year_to_use of Case A
YearToUse(month, current_year, now_month) ==
    IF month = 12 /\ now_month = 1 THEN current_year - 1 ELSE current_year

\* parse_river_dt(lbl, current_year), with datetime.now(TZ_LOCAL).month
\* as now_month
parse_river_dt(lbl, current_year, now_month) ==
    IF lbl = <<>> THEN None
    ELSE
      LET clean == Strip(lbl)
          m_new == SearchNew(clean)
          dtA   == IF m_new = None THEN None
                   ELSE MakeDatetime(
                          YearToUse(IntOf(m_new[3]), current_year, now_month),
                          IntOf(m_new[3]), IntOf(m_new[2]), IntOf(m_new[1]), 0)
      IN  IF dtA # None THEN dtA
          ELSE ParseOldFormat(clean, current_year, now_month)

(***************************************************************************)
(* Numeric parsing of the provider payload.                                *)
(* A raw JSON field is <<"null">> (missing or null), <<"empty">> (""),     *)
(* <<"junk">> (text whose first comma part is not a number) or             *)
(* <<"num", n>> (a number, or text whose first comma part reads n).        *)
(***************************************************************************)
\* get_first_num(d, key)
get_first_num(v) ==
    IF v[1] \in {"null", "empty"} THEN None
    ELSE IF v[1] = "junk" THEN None
    ELSE IF v[2] > 0 THEN Some(v[2]) ELSE None

\* Python truthiness of an optional number
Truthy(o) == o # None /\ Val(o) # 0

(***************************************************************************)
(* AlertClassifier.                                                        *)
(***************************************************************************)
\* classify_exceed with strict comparisons
classify_exceed_strict(level, bd1, bd2, bd3, hist) ==
    IF level = None THEN 0
    ELSE IF Truthy(hist) /\ Val(level) > Val(hist) THEN 4
    ELSE IF Truthy(bd3) /\ Val(level) > Val(bd3) THEN 3
    ELSE IF Truthy(bd2) /\ Val(level) > Val(bd2) THEN 2
    ELSE IF Truthy(bd1) /\ Val(level) > Val(bd1) THEN 1
    ELSE 0

classify_exceed(level, bd1, bd2, bd3, hist) ==
    IF level = None THEN 0
    ELSE IF Truthy(hist) /\ Val(level) >= Val(hist) THEN 4
    ELSE IF Truthy(bd3) /\ Val(level) >= Val(bd3) THEN 3
    ELSE IF Truthy(bd2) /\ Val(level) >= Val(bd2) THEN 2
    ELSE IF Truthy(bd1) /\ Val(level) >= Val(bd1) THEN 1
    ELSE 0

\* round(diff, 2) on 0.001 m integers.  The float difference of two decimal
\* readings is not exact, so a value half way between two hundredths goes to
\* either neighbour; every other value goes to the nearest hundredth.
Round2(diff) ==
    LET lo  == (diff \div 10) * 10
        rem == diff - lo
    IN  IF rem < 5 THEN {lo}
        ELSE IF rem > 5 THEN {lo + 10}
        ELSE {lo, lo + 10}

\* val - threshold inside the try block: None operand raises TypeError,
\* which the bare except turns into None
DiffOrNone(val, thr) ==
    IF thr = None THEN {None}
    ELSE { Some(r) : r \in Round2(Val(val) - Val(thr)) }

\* calculate_alert_diff without the tier-0 branch of line 139
calculate_alert_diff_noBelow(level, val, bd1, bd2, bd3, hist) ==
    IF val = None THEN {None}
    ELSE IF level = 4 THEN DiffOrNone(val, hist)
    ELSE IF level = 3 THEN DiffOrNone(val, bd3)
    ELSE IF level = 2 THEN DiffOrNone(val, bd2)
    ELSE IF level = 1 THEN DiffOrNone(val, bd1)
    ELSE {None}

\* calculate_alert_diff(level, val, bd1, bd2, bd3, hist): the set of values
\* the call can return (level is the tier, val the water level)
calculate_alert_diff(level, val, bd1, bd2, bd3, hist) ==
    IF val = None THEN {None}
    ELSE IF level = 4 THEN DiffOrNone(val, hist)
    ELSE IF level = 3 THEN DiffOrNone(val, bd3)
    ELSE IF level = 2 THEN DiffOrNone(val, bd2)
    ELSE IF level = 1 THEN DiffOrNone(val, bd1)
    ELSE IF Truthy(bd1) THEN DiffOrNone(val, bd1)
    ELSE {None}

(***************************************************************************)
(* Bounds of the model.                                                    *)
(***************************************************************************)
\* lake records returned by one scan
MaxLakeRecs == 1
\* pipeline runs
MaxRuns == 2
\* days the clock advances between runs
MaxDays == 1
\* largest water level of the classifier inputs (0.001 m)
MaxLevel == 11

(***************************************************************************)
(* Configuration store (config_stations.json) and text ordering.           *)
(***************************************************************************)
STATION_CONFIG ==
    [ sid \in { << "1", "2" >> } |-> [ name |-> "Son Tay", basin_recode |-> "Hong" ] ]

LAKE_CONFIG ==
    [ lc \in { << "H", "1" >> } |-> [ name |-> "Hoa Binh", basin_recode |-> "Da" ] ]

STATION_IDS == DOMAIN STATION_CONFIG
LAKE_IDS == DOMAIN LAKE_CONFIG

\* the texts of the sort columns in ascending string order
SortedTexts == << "Da", "Hoa Binh", "Hong", "Lake", "River", "Son Tay" >>

TextRank(t) == CHOOSE i \in 1..Len(SortedTexts) : SortedTexts[i] = t

(***************************************************************************)
(* ms_to_dt_local.  The epoch field is carried in whole minutes            *)
(* (milliseconds \div 60000): strftime("%Y-%m-%d %H:%M") drops the rest.   *)
(* A raw field is <<"null">> (no digits in str(value)) or <<"ms", minutes>>*)
(***************************************************************************)
ms_to_dt_local(ms_str) ==
    IF ms_str[1] # "ms" THEN None
    ELSE LET local == ms_str[2] + 7 * 60
             dt    == CivilFromDays(local \div 1440)
         IN  << dt[1], dt[2], dt[3], (local % 1440) \div 60, local % 60 >>

\* epoch minutes of a local (GMT+7) civil time, to write provider payloads
EpochMinutes(y, m, d, h, mi) ==
    DaysFromCivil(<< y, m, d >>) * 1440 + h * 60 + mi - 7 * 60

(***************************************************************************)
(* The tabular data.                                                       *)
(* A DataFrame row carries its id as <<dtype, text>>, dtype "str" or       *)
(* "int"; a row of the CSV file carries the id as written text.            *)
(***************************************************************************)
RECURSIVE TupleLess(_, _)
\* lexicographic order of two integer tuples of equal length
TupleLess(a, b) ==
    IF a = <<>> THEN FALSE
    ELSE IF a[1] # b[1] THEN a[1] < b[1]
    ELSE TupleLess(Tail(a), Tail(b))

\* order of the timestamp column, NaN last
TsLess(a, b) ==
    IF a = None THEN FALSE
    ELSE IF b = None THEN TRUE
    ELSE TupleLess(a, b)

\* row a sorts strictly before row b by ["type", basin, name, timestamp]
RowLess(a, b) ==
    IF a.type # b.type THEN TextRank(a.type) < TextRank(b.type)
    ELSE IF a.basin # b.basin THEN TextRank(a.basin) < TextRank(b.basin)
    ELSE IF a.name # b.name THEN TextRank(a.name) < TextRank(b.name)
    ELSE TsLess(a.ts, b.ts)

RECURSIVE InsertRow(_, _)
\* insert r behind the rows that do not sort after it (stable)
InsertRow(sorted, r) ==
    IF sorted = <<>> THEN << r >>
    ELSE IF RowLess(r, sorted[1]) THEN << r >> \o sorted
    ELSE << sorted[1] >> \o InsertRow(Tail(sorted), r)

RECURSIVE sort_values(_)
\* DataFrame.sort_values([type, basin, name, timestamp]): stable lexsort
sort_values(rows) ==
    IF rows = <<>> THEN <<>>
    ELSE InsertRow(sort_values(SubSeq(rows, 1, Len(rows) - 1)), rows[Len(rows)])

\* the subset columns of drop_duplicates
DedupKey(r) == << r.type, r.id, r.ts >>

RECURSIVE drop_duplicates(_)
\* DataFrame.drop_duplicates(subset=[type, id, timestamp], keep="last")
drop_duplicates(rows) ==
    IF rows = <<>> THEN <<>>
    ELSE LET rest == Tail(rows)
         IN  IF \E i \in 1..Len(rest) : DedupKey(rest[i]) = DedupKey(rows[1])
             THEN drop_duplicates(rest)
             ELSE << rows[1] >> \o drop_duplicates(rest)

RECURSIVE StripZeros(_)
\* the text of int(text)
StripZeros(t) ==
    IF Len(t) > 1 /\ t[1] = "0" THEN StripZeros(Tail(t)) ELSE t

IsDigits(t) == t # <<>> /\ \A i \in 1..Len(t) : IsDigit(t[i])

\* DataFrame.to_csv: every cell is written as its text
to_csv(rows) ==
    [ i \in 1..Len(rows) |-> [ rows[i] EXCEPT !.id = rows[i].id[2] ] ]

\* pd.read_csv without dtype: a column whose cells all read as integers
\* becomes int64, any other text column stays text
read_csv(filerows) ==
    LET allint == \A i \in 1..Len(filerows) : IsDigits(filerows[i].id)
    IN  [ i \in 1..Len(filerows) |->
            [ filerows[i] EXCEPT !.id =
                IF allint THEN << "int", StripZeros(filerows[i].id) >>
                ELSE << "str", filerows[i].id >> ] ]

(***************************************************************************)
(* State.                                                                  *)
(***************************************************************************)
VARIABLES
    today,        \* datetime.now(TZ_LOCAL).date() of the current process
    runs,         \* processes started so far
    csv,          \* OUT_CSV: [state: "absent" | "ok" | "corrupt", rows]
    csv0,         \* OUT_CSV as the current (or last) run found it
    pc,           \* "idle" | "rivers" | "lakes"
    start_date,   \* DEFAULT_START_DATE
    end_date,     \* DEFAULT_END_DATE
    final_rows,   \* final_rows of main(), kept after the run ends
    seen,         \* station ids main() has iterated over in this run
    nlake,        \* lake records main() has iterated over in this run
    inp,          \* the payload or record of the last loop iteration
    report,       \* the console line that ended the last run
    alert,        \* inputs and results of one AlertClassifier evaluation
    parsed        \* inputs and result of one parse_river_dt evaluation

pipeVars == << today, runs, csv, csv0, pc, start_date, end_date, final_rows,
               seen, nlake, inp, report >>

vars == << pipeVars, alert, parsed >>

(***************************************************************************)
(* FetchWindowPlanner: module level code run when the process starts.      *)
(***************************************************************************)
\* pd.to_datetime(column).max(): None stands for NaT
MaxTimestamp(filerows) ==
    LET stamps == { filerows[i].ts : i \in 1..Len(filerows) } \ { None }
    IN  IF stamps = {} THEN None
        ELSE CHOOSE t \in stamps : \A u \in stamps : ~TupleLess(t, u)

DEFAULT_END_DATE(now) == now

\* the planner without the clock drift guard of line 34
DEFAULT_START_DATE_noDrift(file, now) ==
    IF file.state = "absent" THEN MinusDays(DEFAULT_END_DATE(now), 6)
    ELSE IF file.state = "corrupt" THEN MinusDays(DEFAULT_END_DATE(now), 6)
    ELSE LET last_dt == MaxTimestamp(file.rows)
         IN  IF last_dt = None THEN MinusDays(DEFAULT_END_DATE(now), 6)
             ELSE DateOf(last_dt)

DEFAULT_START_DATE(file, now) ==
    IF file.state = "absent" THEN MinusDays(DEFAULT_END_DATE(now), 6)
    ELSE IF file.state = "corrupt" THEN MinusDays(DEFAULT_END_DATE(now), 6)
    ELSE LET last_dt == MaxTimestamp(file.rows)
         IN  IF last_dt = None THEN MinusDays(DEFAULT_END_DATE(now), 6)
             ELSE IF DateLess(DEFAULT_END_DATE(now), DateOf(last_dt))
                  THEN MinusDays(DEFAULT_END_DATE(now), 6)
                  ELSE DateOf(last_dt)

(***************************************************************************)
(* RecordNormalizer.                                                       *)
(***************************************************************************)
\* one entry of the values list: <<"sentinel">> is one of "-", "null", "",
\* "NULL"; <<"num", n>> reads as a float; float() raises on <<"junk">>
ParseValue(x) == IF x[1] = "num" THEN Some(x[2]) ELSE None

\* the rows the loop body of lines 351-387 appends for pair i
RiverPairRows(sid, d, i, curr_year, now_month, start) ==
    LET dt_local == parse_river_dt(d.labels[i], curr_year, now_month)
        bd1      == get_first_num(d.bao_dong1)
        bd2      == get_first_num(d.bao_dong2)
        bd3      == get_first_num(d.bao_dong3)
        hist_m   == get_first_num(d.gia_tri_lu_lich_su)
        val      == ParseValue(d.value[i])
        alert_val == classify_exceed(val, bd1, bd2, bd3, hist_m)
    IN  IF dt_local = None THEN { <<>> }
        ELSE IF DateLess(DateOf(dt_local), start) THEN { <<>> }
        ELSE { << [ type  |-> "River",
                    id    |-> << "str", sid >>,
                    name  |-> STATION_CONFIG[sid].name,
                    basin |-> STATION_CONFIG[sid].basin_recode,
                    ts    |-> dt_local,
                    level |-> val,
                    tier  |-> Some(alert_val),
                    diff  |-> alert_diff ] >> :
               alert_diff \in
                 calculate_alert_diff(alert_val, val, bd1, bd2, bd3, hist_m) }

Min(a, b) == IF a < b THEN a ELSE b

RECURSIVE RiverRowsFrom(_, _, _, _, _, _)
\* for i in range(min(len(labels), len(values))), from pair i on
RiverRowsFrom(sid, d, i, curr_year, now_month, start) ==
    IF i > Min(Len(d.labels), Len(d.value)) THEN { <<>> }
    ELSE { a \o b :
             a \in RiverPairRows(sid, d, i, curr_year, now_month, start),
             b \in RiverRowsFrom(sid, d, i + 1, curr_year, now_month, start) }

\* float(x.strip()) raises ValueError while the values list is built
PayloadRaises(d) == \E i \in 1..Len(d.value) : d.value[i][1] = "junk"

\* the lake loop body without the window filter of lines 406-407
LakeRows_noWindow(rec, start) ==
    IF rec.LakeCode \notin DOMAIN LAKE_CONFIG THEN <<>>
    ELSE << [ type  |-> "Lake",
              id    |-> << "str", rec.LakeCode >>,
              name  |-> LAKE_CONFIG[rec.LakeCode].name,
              basin |-> LAKE_CONFIG[rec.LakeCode].basin_recode,
              ts    |-> ms_to_dt_local(rec.ThoiGianCapNhat),
              level |-> rec.TdMucNuoc,
              tier  |-> None,
              diff  |-> None ] >>

\* the row lines 393-432 append for one lake record, <<>> when it is dropped
LakeRows(rec, start) ==
    IF rec.LakeCode \notin DOMAIN LAKE_CONFIG THEN <<>>
    ELSE LET dt_local == ms_to_dt_local(rec.ThoiGianCapNhat)
         IN  IF dt_local # None /\ DateLess(DateOf(dt_local), start) THEN <<>>
             ELSE << [ type  |-> "Lake",
                       id    |-> << "str", rec.LakeCode >>,
                       name  |-> LAKE_CONFIG[rec.LakeCode].name,
                       basin |-> LAKE_CONFIG[rec.LakeCode].basin_recode,
                       ts    |-> dt_local,
                       level |-> rec.TdMucNuoc,
                       tier  |-> None,
                       diff  |-> None ] >>

(***************************************************************************)
(* IncrementalMerger: lines 434-491 of main().                             *)
(***************************************************************************)
\* the try block of lines 470-483
MergeWithExisting(file, df) ==
    to_csv(sort_values(drop_duplicates(read_csv(file.rows) \o df)))

\* the export without the except branch of lines 485-488: the run aborts
ExportResult_abortOnCorrupt(file, rows) ==
    IF rows = <<>> THEN [ file |-> file, report |-> "no_data" ]
    ELSE LET df == sort_values(rows)
         IN  IF file.state = "absent"
             THEN [ file   |-> [ state |-> "ok", rows |-> to_csv(df) ],
                    report |-> "saved" ]
             ELSE IF file.state = "corrupt"
             THEN [ file |-> file, report |-> "none" ]
             ELSE [ file   |-> [ state |-> "ok",
                                 rows  |-> MergeWithExisting(file, df) ],
                    report |-> "merged" ]

\* the export without the empty batch return of lines 435-437
ExportResult_noEmptyGuard(file, rows) ==
    LET df == sort_values(rows)
    IN  IF file.state = "ok"
        THEN [ file   |-> [ state |-> "ok",
                            rows  |-> MergeWithExisting(file, df) ],
               report |-> "merged" ]
        ELSE [ file   |-> [ state |-> "ok", rows |-> to_csv(df) ],
               report |-> "saved" ]

\* the file and the console line main() ends with
ExportResult(file, rows) ==
    IF rows = <<>> THEN [ file |-> file, report |-> "no_data" ]
    ELSE LET df == sort_values(rows)
         IN  IF file.state = "absent"
             THEN [ file   |-> [ state |-> "ok", rows |-> to_csv(df) ],
                    report |-> "saved" ]
             ELSE IF file.state = "corrupt"
             THEN [ file   |-> [ state |-> "ok", rows |-> to_csv(df) ],
                    report |-> "overwritten" ]
             ELSE [ file   |-> [ state |-> "ok",
                                 rows  |-> MergeWithExisting(file, df) ],
                    report |-> "merged" ]

(***************************************************************************)
(* Provider payloads of the pipeline runs.                                 *)
(***************************************************************************)
\* "{h}h \n{d}/{m}"
FormatA(h, d, m) == StrOf(h) \o << "h", " ", "\n" >> \o StrOf(d) \o << "/" >> \o StrOf(m)

\* "{h}h{mm}/{d}"
FormatB(h, mi, d) == StrOf(h) \o << "h" >> \o StrOf(mi) \o << "/" >> \o StrOf(d)

\* the local date of the first run
Today0 == << 2024, 12, 31 >>

\* the labels lists the provider answers with
RiverLabelLists ==
    { << FormatA(23, 31, 12) >>,
      << FormatA(23, 31, 12), FormatA(23, 31, 12) >>,
      << FormatB(7, 30, 31), FormatA(23, 31, 12) >>,
      << FormatA(0, 20, 12) >>,
      << <<>> >> }

\* the values lists the provider answers with
RiverValueLists ==
    { << << "num", 1200 >> >>,
      << << "num", 1300 >> >>,
      << << "num", 1200 >>, << "num", 1300 >> >>,
      << << "sentinel" >> >>,
      << << "junk" >> >> }

RiverPayloads ==
    [ bao_dong1 : { << "num", 1000 >> },
      bao_dong2 : { << "num", 1250 >> },
      bao_dong3 : { << "num", 0 >> },
      gia_tri_lu_lich_su : { << "empty" >> },
      labels : RiverLabelLists,
      value  : RiverValueLists ]

LakeRecords ==
    [ LakeCode : LAKE_IDS \cup { << "X", "9" >> },
      ThoiGianCapNhat : { << "null" >>,
                          << "ms", EpochMinutes(2024, 12, 31, 10, 0) >>,
                          << "ms", EpochMinutes(2024, 12, 20, 10, 0) >> },
      TdMucNuoc : { Some(5000) } ]

NoInput == [ kind |-> "none" ]
NoAlert == [ op |-> "none" ]
NoParse == [ op |-> "none" ]

(***************************************************************************)
(* The pipeline: one process per run.                                      *)
(***************************************************************************)
Init ==
    /\ today = Today0
    /\ runs = 0
    /\ csv = [ state |-> "absent", rows |-> <<>> ]
    /\ csv0 = csv
    /\ pc = "idle"
    /\ start_date = MinusDays(Today0, 6)
    /\ end_date = Today0
    /\ final_rows = <<>>
    /\ seen = {}
    /\ nlake = 0
    /\ inp = NoInput
    /\ report = "none"
    /\ alert = NoAlert
    /\ parsed = NoParse

\* the process starts: lines 24-45, then main() up to the river loop
StartRun ==
    /\ pc = "idle"
    /\ runs < MaxRuns
    /\ runs' = runs + 1
    /\ end_date' = DEFAULT_END_DATE(today)
    /\ start_date' = DEFAULT_START_DATE(csv, today)
    /\ csv0' = csv
    /\ final_rows' = <<>>
    /\ seen' = {}
    /\ nlake' = 0
    /\ inp' = NoInput
    /\ report' = "none"
    /\ pc' = "rivers"
    /\ UNCHANGED << today, csv, alert, parsed >>

\* one iteration of the river loop, lines 310-389: the provider answers
\* station sid with payload d
RiverStation ==
    /\ pc = "rivers"
    /\ \E sid \in STATION_IDS \ seen, d \in RiverPayloads :
         /\ seen' = seen \cup { sid }
         /\ inp' = d
         /\ IF PayloadRaises(d)
            THEN final_rows' = final_rows
            ELSE \E rows \in RiverRowsFrom(sid, d, 1, today[1], today[2], start_date) :
                   final_rows' = final_rows \o rows
    /\ UNCHANGED << today, runs, csv, csv0, pc, start_date, end_date, nlake,
                    report, alert, parsed >>

\* the river loop ends: every station of the scraped list had its turn, or
\* the request for it did not return status 200
RiversDone ==
    /\ pc = "rivers"
    /\ pc' = "lakes"
    /\ UNCHANGED << today, runs, csv, csv0, start_date, end_date, final_rows,
                    seen, nlake, inp, report, alert, parsed >>

\* one iteration of the lake loop, lines 393-432
LakeRecord ==
    /\ pc = "lakes"
    /\ nlake < MaxLakeRecs
    /\ \E rec \in LakeRecords :
         /\ inp' = rec
         /\ final_rows' = final_rows \o LakeRows(rec, start_date)
    /\ nlake' = nlake + 1
    /\ UNCHANGED << today, runs, csv, csv0, pc, start_date, end_date, seen,
                    report, alert, parsed >>

\* lines 434-493: export and incremental merge; the process ends
Export ==
    /\ pc = "lakes"
    /\ LET res == ExportResult(csv, final_rows)
       IN  /\ csv' = res.file
           /\ report' = res.report
    /\ pc' = "idle"
    /\ UNCHANGED << today, runs, csv0, start_date, end_date, final_rows, seen,
                    nlake, inp, alert, parsed >>

\* midnight passes between two runs
Tick ==
    /\ pc = "idle"
    /\ DaysFromCivil(today) - DaysFromCivil(Today0) < MaxDays
    /\ today' = CivilFromDays(DaysFromCivil(today) + 1)
    /\ UNCHANGED << runs, csv, csv0, pc, start_date, end_date, final_rows, seen,
                    nlake, inp, report, alert, parsed >>

\* the file is damaged between two runs (the tabular store is external)
CorruptFile ==
    /\ pc = "idle"
    /\ csv.state = "ok"
    /\ csv' = [ state |-> "corrupt", rows |-> <<>> ]
    /\ UNCHANGED << today, runs, csv0, pc, start_date, end_date, final_rows,
                    seen, nlake, inp, report, alert, parsed >>

Next ==
    \/ StartRun
    \/ RiverStation
    \/ RiversDone
    \/ LakeRecord
    \/ Export
    \/ Tick
    \/ CorruptFile

Spec == Init /\ [][Next]_vars

(***************************************************************************)
(* AlertClassifier on its own: the inputs are drawn in the initial state,  *)
(* the thresholds reach the classifier through get_first_num as in main(). *)
(***************************************************************************)
RawThresholds ==
    { << "null" >>, << "junk" >>, << "num", 0 - 5 >>, << "num", 0 >>,
      << "num", 5 >>, << "num", 10 >> }

Levels == { None } \cup { Some(n) : n \in (0 - 1)..MaxLevel }

InitAlert ==
    /\ today = Today0
    /\ runs = 0
    /\ csv = [ state |-> "absent", rows |-> <<>> ]
    /\ csv0 = csv
    /\ pc = "idle"
    /\ start_date = MinusDays(Today0, 6)
    /\ end_date = Today0
    /\ final_rows = <<>>
    /\ seen = {}
    /\ nlake = 0
    /\ inp = NoInput
    /\ report = "none"
    /\ parsed = NoParse
    /\ alert \in [ op : { "input" },
                   val : Levels,
                   bao_dong1 : RawThresholds,
                   bao_dong2 : RawThresholds,
                   bao_dong3 : RawThresholds,
                   gia_tri_lu_lich_su : RawThresholds,
                   tier_arg : 0..4,
                   bd1 : { None }, bd2 : { None }, bd3 : { None },
                   hist : { None },
                   tier : { 0 },
                   diff : { None } ]

\* lines 329-332 and 361: the thresholds are read and the level classified
ClassifyCall ==
    /\ alert.op = "input"
    /\ LET bd1  == get_first_num(alert.bao_dong1)
           bd2  == get_first_num(alert.bao_dong2)
           bd3  == get_first_num(alert.bao_dong3)
           hist == get_first_num(alert.gia_tri_lu_lich_su)
       IN  alert' = [ alert EXCEPT
                        !.op = "classified",
                        !.bd1 = bd1, !.bd2 = bd2, !.bd3 = bd3, !.hist = hist,
                        !.tier = classify_exceed(alert.val, bd1, bd2, bd3, hist) ]
    /\ UNCHANGED << pipeVars, parsed >>

\* calculate_alert_diff called with a tier of 0..4
DiffCall ==
    /\ alert.op = "classified"
    /\ \E r \in calculate_alert_diff(alert.tier_arg, alert.val, alert.bd1,
                                     alert.bd2, alert.bd3, alert.hist) :
         alert' = [ alert EXCEPT !.op = "diffed", !.diff = r ]
    /\ UNCHANGED << pipeVars, parsed >>

NextAlert ==
    \/ ClassifyCall
    \/ DiffCall

SpecAlert == InitAlert /\ [][NextAlert]_vars

(***************************************************************************)
(* TimeLabelParser on its own.                                             *)
(***************************************************************************)
\* two digit, zero padded
Pad2(n) == << Digits[(n \div 10) + 1], Digits[(n % 10) + 1] >>

\* "{hh}h {dd}/{mm}", zero padded
FormatAPadded(h, d, m) == Pad2(h) \o << "h", " " >> \o Pad2(d) \o << "/" >> \o Pad2(m)

LabelText(src) ==
    IF src.fmt = "A" THEN FormatA(src.h, src.d, src.m)
    ELSE IF src.fmt = "A0" THEN FormatAPadded(src.h, src.d, src.m)
    ELSE IF src.fmt = "B" THEN FormatB(src.h, src.mi, src.d)
    ELSE IF src.fmt = "empty" THEN <<>>
    ELSE << "-" >>

LabelSources ==
    [ fmt : { "A", "A0" }, h : { 0, 9, 23, 24 }, d : { 1, 29, 30, 31, 32 },
      m : { 1, 2, 11, 12, 13 }, mi : { 0 } ]
    \cup
    [ fmt : { "B" }, h : { 0, 7, 23, 24 }, d : { 1, 29, 30, 31, 32 },
      m : { 0 }, mi : { 0, 30, 60 } ]
    \cup
    [ fmt : { "empty", "junk" }, h : { 0 }, d : { 0 }, m : { 0 }, mi : { 0 } ]

ReferenceYears == { 2023, 2024, 2025 }

InitParse ==
    /\ today = Today0
    /\ runs = 0
    /\ csv = [ state |-> "absent", rows |-> <<>> ]
    /\ csv0 = csv
    /\ pc = "idle"
    /\ start_date = MinusDays(Today0, 6)
    /\ end_date = Today0
    /\ final_rows = <<>>
    /\ seen = {}
    /\ nlake = 0
    /\ inp = NoInput
    /\ report = "none"
    /\ alert = NoAlert
    /\ parsed \in [ op : { "input" },
                    src : LabelSources,
                    current_year : ReferenceYears,
                    now_month : 1..12,
                    result : { None } ]

\* line 353
ParseCall ==
    /\ parsed.op = "input"
    /\ parsed' = [ parsed EXCEPT
                     !.op = "parsed",
                     !.result = parse_river_dt(LabelText(parsed.src),
                                               parsed.current_year,
                                               parsed.now_month) ]
    /\ UNCHANGED << pipeVars, alert >>

NextParse == ParseCall

SpecParse == InitParse /\ [][NextParse]_vars

(***************************************************************************)
(* Properties.                                                             *)
(***************************************************************************)
\* the dedup key of a row of the file, as written
FileKey(r) == << r.type, r.id, r.ts >>

\* the dedup key a batch row has once written
BatchKey(r) == << r.type, r.id[2], r.ts >>

NoDuplicateKeys(filerows) ==
    \A i, j \in 1..Len(filerows) :
        FileKey(filerows[i]) = FileKey(filerows[j]) => i = j

\* the index of the last batch row with key k
LastWithKey(rows, k) ==
    CHOOSE i \in 1..Len(rows) :
        /\ BatchKey(rows[i]) = k
        /\ \A j \in 1..Len(rows) : BatchKey(rows[j]) = k => j <= i

\* the last run ended, merged into a prior dataset, and the file is as it
\* left it
MergedRunEnded == pc = "idle" /\ report = "merged" /\ csv.state = "ok"

\* C1: the persisted dataset never holds two rows with the same
\* (entity_type, entity_id, timestamp) key, whatever the runs were and
\* whatever duplicates their batches held.
C1_UniqueKeyAlways == csv.state = "ok" => NoDuplicateKeys(csv.rows)

\* C2: after a merge with a prior dataset, every key that the prior dataset
\* and the incoming batch share has exactly one row in the merged dataset,
\* and that row is the last incoming row with the key.
C2_MergeOverride ==
    MergedRunEnded =>
        \A i \in 1..Len(final_rows) :
            LET k == BatchKey(final_rows[i])
                hits == { n \in 1..Len(csv.rows) : FileKey(csv.rows[n]) = k }
            IN  (\E m \in 1..Len(csv0.rows) : FileKey(csv0.rows[m]) = k) =>
                    /\ Cardinality(hits) = 1
                    /\ \A n \in hits :
                         csv.rows[n] =
                           to_csv(<< final_rows[LastWithKey(final_rows, k)] >>)[1]

\* C3: merging the same batch twice is idempotent: after a merge the dataset
\* has no duplicate keys, has one row per distinct key of the prior dataset
\* and the batch, and a further run with the identical batch leaves it
\* unchanged.
C3_MergeIdempotent ==
    MergedRunEnded =>
        /\ NoDuplicateKeys(csv.rows)
        /\ Len(csv.rows) =
             Cardinality({ FileKey(csv0.rows[m]) : m \in 1..Len(csv0.rows) }
                         \cup { BatchKey(final_rows[i]) : i \in 1..Len(final_rows) })
        /\ ExportResult(csv, final_rows).file = csv

\* the tier the classifier contract assigns: a threshold is set when it is
\* not None
ContractTier(level, tier1, tier2, tier3, historical) ==
    IF level = None THEN 0
    ELSE IF historical # None /\ Val(level) >= Val(historical) THEN 4
    ELSE IF tier3 # None /\ Val(level) >= Val(tier3) THEN 3
    ELSE IF tier2 # None /\ Val(level) >= Val(tier2) THEN 2
    ELSE IF tier1 # None /\ Val(level) >= Val(tier1) THEN 1
    ELSE 0

\* C4: classify_exceed returns 0 for an absent level, else the highest tier
\* among 4 (historical), 3, 2, 1 whose threshold is set and not above the
\* level, else 0; it returns 0 when no threshold is set and always a tier of
\* 0..4.
C4_ClassifyTiers ==
    alert.op \in { "classified", "diffed" } =>
        /\ alert.tier = ContractTier(alert.val, alert.bd1, alert.bd2,
                                     alert.bd3, alert.hist)
        /\ alert.tier \in 0..4
        /\ (alert.val = None => alert.tier = 0)
        /\ ((alert.bd1 = None /\ alert.bd2 = None /\ alert.bd3 = None
             /\ alert.hist = None) => alert.tier = 0)

\* a level between a set tier-3 threshold and a set, higher historical level
C4_Witness ==
    /\ alert.op = "classified"
    /\ alert.tier = 3
    /\ alert.hist # None
    /\ alert.bd1 = None

\* the threshold of the reported tier
SelectedThreshold ==
    IF alert.tier_arg = 4 THEN alert.hist
    ELSE IF alert.tier_arg = 3 THEN alert.bd3
    ELSE IF alert.tier_arg = 2 THEN alert.bd2
    ELSE alert.bd1

\* C5: calculate_alert_diff returns the level minus the threshold of the
\* reported tier (tier1 for tier 0), rounded to a hundredth of a metre, and
\* returns no value, without an error, when the level or that threshold is
\* absent.
C5_AlertDiff ==
    alert.op = "diffed" =>
        IF alert.val = None \/ SelectedThreshold = None
        THEN alert.diff = None
        ELSE /\ alert.diff # None
             /\ Val(alert.diff) % 10 = 0
             /\ Val(alert.diff) - (Val(alert.val) - Val(SelectedThreshold)) \in (0 - 5)..5

\* tier 0 with tier1 present: a negative distance below the first threshold
C5_Witness ==
    /\ alert.op = "diffed"
    /\ alert.tier_arg = 0
    /\ alert.bd1 # None
    /\ alert.diff # None
    /\ Val(alert.diff) < 0

\* the latest timestamp of the dataset a run found, None when there is none
LatestPersisted ==
    IF csv0.state # "ok" THEN None
    ELSE LET stamps == { csv0.rows[i].ts : i \in 1..Len(csv0.rows) } \ { None }
         IN  IF stamps = {} THEN None
             ELSE CHOOSE t \in stamps : \A u \in stamps : u = t \/ TupleLess(u, t)

\* C6: the window of a run is (start_date, today); start_date is the date of
\* the latest persisted timestamp when there is one and it is not after
\* today, and today - 6 days otherwise; start_date <= end_date.
C6_FetchWindow ==
    pc # "idle" =>
        /\ end_date = today
        /\ IF LatestPersisted = None
           THEN DaysFromCivil(start_date) = DaysFromCivil(today) - 6
           ELSE IF TupleLess(today, DateOf(LatestPersisted))
           THEN DaysFromCivil(start_date) = DaysFromCivil(today) - 6
           ELSE start_date = DateOf(LatestPersisted)
        /\ ~TupleLess(end_date, start_date)

\* a run that resumes from the date of the latest persisted timestamp, on a
\* later day
C6_Witness ==
    /\ pc = "rivers"
    /\ LatestPersisted # None
    /\ start_date = DateOf(LatestPersisted)
    /\ start_date # today

\* h, d, m, mi make a civil time of year y
CivilTime(y, m, d, h, mi) ==
    /\ h \in 0..23
    /\ mi \in 0..59
    /\ m \in 1..12
    /\ d >= 1
    /\ d <= (IF m \in { 1, 3, 5, 7, 8, 10, 12 } THEN 31
             ELSE IF m # 2 THEN 30
             ELSE IF y % 4 = 0 /\ (y % 100 # 0 \/ y % 400 = 0) THEN 29 ELSE 28)

\* C7: a valid Format-A label parses to its hour, day and month at minute 0,
\* in reference_year - 1 when the label's month is 12 and the current month
\* is 1 and in reference_year otherwise; a valid Format-B label parses to its
\* hour, minute and day in the current month of reference_year.
C7_ParseLabels ==
    parsed.op = "parsed" =>
        LET src == parsed.src
            y   == parsed.current_year
            yA  == IF src.m = 12 /\ parsed.now_month = 1 THEN y - 1 ELSE y
        IN  /\ (src.fmt \in { "A", "A0" } /\ CivilTime(yA, src.m, src.d, src.h, 0)) =>
                  parsed.result = << yA, src.m, src.d, src.h, 0 >>
            /\ (src.fmt = "B" /\ CivilTime(y, parsed.now_month, src.d, src.h, src.mi)) =>
                  parsed.result = << y, parsed.now_month, src.d, src.h, src.mi >>

\* a December label parsed in January
C7_Witness ==
    /\ parsed.op = "parsed"
    /\ parsed.src.fmt = "A"
    /\ parsed.src.m = 12
    /\ parsed.now_month = 1
    /\ parsed.result # None
    /\ parsed.result[1] = parsed.current_year - 1

\* the step that ends a run
RunEnds == pc = "lakes" /\ pc' = "idle"

Count(rows, r) == Cardinality({ i \in 1..Len(rows) : rows[i] = r })

\* C8: a run that finds the prior dataset unreadable does not abort: it
\* leaves the file holding exactly the rows of its own batch, sorted by the
\* ordering key, and reports the overwrite.
C8_CorruptOverwrite ==
    [][ (RunEnds /\ csv.state = "corrupt" /\ final_rows # <<>>) =>
          /\ csv'.state = "ok"
          /\ report' = "overwritten"
          /\ Len(csv'.rows) = Len(final_rows)
          /\ \A i \in 1..Len(final_rows) :
               Count(csv'.rows, to_csv(final_rows)[i])
                 = Count(to_csv(final_rows), to_csv(final_rows)[i])
          /\ \A i, j \in 1..Len(csv'.rows) :
               i < j => ~RowLess(csv'.rows[j], csv'.rows[i]) ]_vars

\* an overwrite whose batch was collected rivers first, lakes last
C8_Witness ==
    /\ pc = "idle"
    /\ report = "overwritten"
    /\ csv0.state = "corrupt"
    /\ csv.state = "ok"
    /\ Len(final_rows) >= 2
    /\ final_rows[1].type = "River"
    /\ csv.rows[1].type = "Lake"

\* the pairs of payload d the contract keeps
KeptPairs(d) ==
    { i \in 1..Min(Len(d.labels), Len(d.value)) :
        LET dt == parse_river_dt(d.labels[i], today[1], today[2])
        IN  dt # None /\ ~TupleLess(DateOf(dt), start_date) }

\* C9: no observation of the batch is dated before the start of the fetch
\* window; a river pair is dropped when its label does not parse or its date
\* precedes start_date, a lake record when its date precedes start_date, and
\* a lake record without a timestamp is kept with no timestamp.
C9_WindowFilter ==
    /\ [](\A i \in 1..Len(final_rows) :
            final_rows[i].ts # None =>
                ~TupleLess(DateOf(final_rows[i].ts), start_date))
    /\ [][ (pc = "rivers" /\ seen' # seen /\ ~PayloadRaises(inp')) =>
             Len(final_rows') = Len(final_rows) + Cardinality(KeptPairs(inp')) ]_vars
    /\ [][ (pc = "lakes" /\ nlake' # nlake /\ inp'.LakeCode \in LAKE_IDS) =>
             LET dt == ms_to_dt_local(inp'.ThoiGianCapNhat)
             IN  IF dt # None /\ TupleLess(DateOf(dt), start_date)
                 THEN final_rows' = final_rows
                 ELSE /\ Len(final_rows') = Len(final_rows) + 1
                      /\ final_rows'[Len(final_rows')].type = "Lake"
                      /\ final_rows'[Len(final_rows')].ts = dt ]_vars

\* a batch with a dated river row and a lake row without a timestamp, in a
\* run whose window starts at the resumed date
C9_Witness ==
    /\ pc = "lakes"
    /\ csv0.state = "ok"
    /\ \E i \in 1..Len(final_rows) :
         final_rows[i].type = "River" /\ DateOf(final_rows[i].ts) = start_date
    /\ \E i \in 1..Len(final_rows) :
         final_rows[i].type = "Lake" /\ final_rows[i].ts = None

\* C10: a run with an empty batch writes nothing: it reports that nothing
\* was collected and leaves the persisted dataset as it was.
C10_EmptyBatch ==
    [][ (RunEnds /\ final_rows = <<>>) =>
          /\ csv' = csv
          /\ report' = "no_data" ]_vars

\* a run that collected nothing while a dataset with duplicate keys existed
C10_Witness ==
    /\ pc = "idle"
    /\ report = "no_data"
    /\ final_rows = <<>>
    /\ csv.state = "ok"
    /\ ~NoDuplicateKeys(csv.rows)

====
